---- MODULE Spec2Model ----
(***************************************************************************)
(* Model of the TradingStar launcher (src/src/main.rs): the Launcher       *)
(* state, the update handlers, the iced runtime that drives them           *)
(* (subscription tracking, command results) and the ProcessListener tasks. *)
(***************************************************************************)
EXTENDS Integers, Sequences, FiniteSets, TLC

\* ------------------------------------------------------------------------
\* Bounds of the exploration (not program constants)
\* ------------------------------------------------------------------------
\* user-interface messages handled in one behaviour
MaxIntents == 3
\* lines read from the pipes of all children in one behaviour
MaxOut == 2
\* messages waiting for update at one time
MaxQueue == 2
\* blocks (runs of text, escape sequences) of a line given to the parser
MaxBlocks == 4
\* add_log calls and clears made on a prepared log buffer
MaxAppends == 3
\* reads of the child's pipes that fail
MaxReadErrors == 1
\* presses of the Start and Stop buttons in PressSpec
MaxPresses == 5

\* ------------------------------------------------------------------------
\* Program constants
\* ------------------------------------------------------------------------
MAX_LOG_LINES == 500

\* a process id left in the settings file by an earlier session
StalePid == 4242

\* ------------------------------------------------------------------------
\* Option<T>: None is the empty sequence, Some(x) a one-element sequence
\* ------------------------------------------------------------------------
None == <<>>
Some(x) == <<x>>
IsSome(o) == o # <<>>
Unwrap(o) == o[1]

\* values the environment supplies
Paths == {"bot"}
Keys == {"", "k"}
ExitCodes == {0, 137}

\* exit status of a child ended by a signal: status.code() is None, unwrap_or(-1)
SignalCode == 0 - 1

\* ------------------------------------------------------------------------
\* Strings.  A String is modelled as the sequence of blocks ansi_parse()
\* yields for it: a text block carries a sequence of symbols, an escape
\* block is a graphics-mode sequence with its codes or another escape.
\* The formatted messages of the launcher are one text block holding one
\* symbol [tag, a, b] (the format string and its two arguments).
\* ------------------------------------------------------------------------
TextBlock(t) == [esc |-> FALSE, sgr |-> FALSE, codes |-> <<>>, text |-> t]
Sgr(codes) == [esc |-> TRUE, sgr |-> TRUE, codes |-> codes, text |-> <<>>]
OtherEscape == [esc |-> TRUE, sgr |-> FALSE, codes |-> <<>>, text |-> <<>>]

Sym(tag, a, b) == [tag |-> tag, a |-> a, b |-> b]
Fmt(tag, a, b) == << TextBlock(<< Sym(tag, a, b) >>) >>

\* format!("STDERR: {}", line)
StderrPrefixed(line) == Fmt("STDERR: ", 0, 0) \o line

ansi_to_iced_color(code) ==
    CASE code = 30 -> <<0, 0, 0>>
      [] code = 31 -> <<205, 92, 92>>
      [] code = 32 -> <<144, 238, 144>>
      [] code = 33 -> <<255, 215, 0>>
      [] code = 34 -> <<70, 130, 180>>
      [] code = 35 -> <<186, 85, 211>>
      [] code = 36 -> <<64, 224, 208>>
      [] code = 37 -> <<211, 211, 211>>
      [] code = 90 -> <<128, 128, 128>>
      [] code = 91 -> <<255, 0, 0>>
      [] code = 92 -> <<0, 255, 0>>
      [] code = 93 -> <<255, 255, 0>>
      [] code = 94 -> <<0, 0, 255>>
      [] code = 95 -> <<255, 0, 255>>
      [] code = 96 -> <<0, 255, 255>>
      [] code = 97 -> <<255, 255, 255>>
      [] OTHER -> <<255, 255, 255>>

AnsiSegment(text, color) == [text |-> text, color |-> color]

\* the parser state of add_log: segments, current_color, current_text
ParserInit == [segments |-> <<>>, current_color |-> None, current_text |-> <<>>]

\* if !current_text.is_empty() { segments.push(..take(current_text)..) }
FlushText(st) ==
    IF st.current_text # <<>>
    THEN [st EXCEPT !.segments = Append(@, AnsiSegment(st.current_text, st.current_color)),
                    !.current_text = <<>>]
    ELSE st

\* ApplyCode without the arm for code 39
ApplyCode_No39(st, code) ==
    IF code = 0
    THEN [FlushText(st) EXCEPT !.current_color = None]
    ELSE IF (code >= 30 /\ code <= 37) \/ (code >= 90 /\ code <= 97)
    THEN [FlushText(st) EXCEPT !.current_color = Some(ansi_to_iced_color(code))]
    ELSE st

\* one code of a non-empty SetGraphicsMode sequence
ApplyCode(st, code) ==
    IF code = 0 \/ code = 39
    THEN [FlushText(st) EXCEPT !.current_color = None]
    ELSE IF (code >= 30 /\ code <= 37) \/ (code >= 90 /\ code <= 97)
    THEN [FlushText(st) EXCEPT !.current_color = Some(ansi_to_iced_color(code))]
    ELSE st

RECURSIVE ApplyCodes(_, _)
ApplyCodes(st, codes) ==
    IF codes = <<>> THEN st
    ELSE ApplyCodes(ApplyCode(st, Head(codes)), Tail(codes))

\* ParseBlock that assigns a text block to current_text
ParseBlock_Overwrite(st, block) ==
    IF ~block.esc
    THEN [st EXCEPT !.current_text = block.text]
    ELSE IF block.sgr
    THEN IF block.codes = <<>>
         THEN [FlushText(st) EXCEPT !.current_color = None]
         ELSE ApplyCodes(st, block.codes)
    ELSE st

ParseBlock(st, block) ==
    IF ~block.esc
    THEN [st EXCEPT !.current_text = @ \o block.text]
    ELSE IF block.sgr
    THEN IF block.codes = <<>>
         THEN [FlushText(st) EXCEPT !.current_color = None]
         ELSE ApplyCodes(st, block.codes)
    ELSE st

RECURSIVE ParseBlocks(_, _)
ParseBlocks(st, message) ==
    IF message = <<>> THEN st
    ELSE ParseBlocks(ParseBlock(st, Head(message)), Tail(message))

\* segments.retain(|seg| !seg.text.is_empty())
RECURSIVE RetainNonEmpty(_)
RetainNonEmpty(segments) ==
    IF segments = <<>> THEN <<>>
    ELSE IF Head(segments).text # <<>>
         THEN << Head(segments) >> \o RetainNonEmpty(Tail(segments))
         ELSE RetainNonEmpty(Tail(segments))

\* the segments without the is_empty test of the last push and the retain
ParseSegments_NoGuard(message) ==
    LET st == ParseBlocks(ParserInit, message)
    IN Append(st.segments, AnsiSegment(st.current_text, st.current_color))

\* the segments add_log computes for a message
ParseSegments(message) ==
    RetainNonEmpty(FlushText(ParseBlocks(ParserInit, message)).segments)

\* add_log whose parser starts with the colour the last stored line ended with
add_log_colour_kept(lg, message) ==
    LET start == IF lg = <<>> THEN None
                 ELSE lg[Len(lg)][Len(lg[Len(lg)])].color
        st == ParseBlocks([ParserInit EXCEPT !.current_color = start], message)
        segments == RetainNonEmpty(FlushText(st).segments)
        popped == IF Len(lg) >= MAX_LOG_LINES THEN Tail(lg) ELSE lg
    IN IF segments # <<>> THEN Append(popped, segments) ELSE popped

\* add_log without the pop_front at capacity
add_log_no_pop(lg, message) ==
    LET segments == ParseSegments(message)
    IN IF segments # <<>> THEN Append(lg, segments) ELSE lg

\* add_log with push_front in place of push_back
add_log_push_front(lg, message) ==
    LET segments == ParseSegments(message)
        popped == IF Len(lg) >= MAX_LOG_LINES THEN Tail(lg) ELSE lg
    IN IF segments # <<>> THEN << segments >> \o popped ELSE popped

\* Launcher::add_log: the new value of self.logs
add_log(lg, message) ==
    LET segments == ParseSegments(message)
        popped == IF Len(lg) >= MAX_LOG_LINES THEN Tail(lg) ELSE lg
    IN IF segments # <<>> THEN Append(popped, segments) ELSE popped

\* ------------------------------------------------------------------------
\* The second implementation of the log, ui.rs (add_log_impl)
\* ------------------------------------------------------------------------
ui_ansi_to_iced_color(code) ==
    CASE code = 30 -> <<1, 1, 1>>
      [] code = 31 -> <<170, 0, 0>>
      [] code = 32 -> <<0, 170, 0>>
      [] code = 33 -> <<170, 170, 0>>
      [] code = 34 -> <<0, 0, 170>>
      [] code = 35 -> <<170, 0, 170>>
      [] code = 36 -> <<0, 170, 170>>
      [] code = 37 -> <<170, 170, 170>>
      [] code = 90 -> <<85, 85, 85>>
      [] code = 91 -> <<255, 85, 85>>
      [] code = 92 -> <<85, 255, 85>>
      [] code = 93 -> <<255, 255, 85>>
      [] code = 94 -> <<85, 85, 255>>
      [] code = 95 -> <<255, 85, 255>>
      [] code = 96 -> <<85, 255, 255>>
      [] code = 97 -> <<255, 255, 255>>
      [] OTHER -> <<255, 255, 255>>

\* one code of a non-empty SetGraphicsMode sequence (the text was flushed
\* before the codes are looked at)
ApplyCodeImpl(st, code) ==
    IF code = 0 \/ code = 39
    THEN [st EXCEPT !.current_color = None]
    ELSE IF (code >= 30 /\ code <= 37) \/ (code >= 90 /\ code <= 97)
    THEN [st EXCEPT !.current_color = Some(ui_ansi_to_iced_color(code))]
    ELSE st

RECURSIVE ApplyCodesImpl(_, _)
ApplyCodesImpl(st, codes) ==
    IF codes = <<>> THEN st
    ELSE ApplyCodesImpl(ApplyCodeImpl(st, Head(codes)), Tail(codes))

ParseBlockImpl(st, block) ==
    IF ~block.esc
    THEN [st EXCEPT !.current_text = @ \o block.text]
    ELSE IF block.sgr
    THEN IF block.codes = <<>>
         THEN [FlushText(st) EXCEPT !.current_color = None]
         ELSE ApplyCodesImpl(FlushText(st), block.codes)
    ELSE st

RECURSIVE ParseBlocksImpl(_, _)
ParseBlocksImpl(st, message) ==
    IF message = <<>> THEN st
    ELSE ParseBlocksImpl(ParseBlockImpl(st, Head(message)), Tail(message))

\* the segments add_log_impl computes for a message
ParseSegmentsImpl(message) ==
    RetainNonEmpty(FlushText(ParseBlocksImpl(ParserInit, message)).segments)

\* add_log_impl: the new value of logs
add_log_impl(lg, message) ==
    LET segments == ParseSegmentsImpl(message)
    IN IF segments # <<>>
       THEN Append(IF Len(lg) >= MAX_LOG_LINES THEN Tail(lg) ELSE lg, segments)
       ELSE lg

\* ------------------------------------------------------------------------
\* State
\* ------------------------------------------------------------------------
VARIABLES
    settings,                 \* Launcher.settings: AppSettings of main.rs
    is_running,               \* Launcher.is_running
    logs,                     \* Launcher.logs
    subscription_id_counter,  \* Launcher.subscription_id_counter
    subscription_id,          \* Launcher.subscription_id
    actual_pid,               \* Launcher.actual_pid
    close_requested,          \* Launcher.close_requested
    file,                     \* the settings file on disk
    queue,                    \* messages the runtime has still to hand to update
    streams,                  \* the ProcessListener streams started so far
    kills,                    \* kill_process futures in flight (their pids)
    saves,                    \* save_settings futures in flight (their settings)
    persist,                  \* history: the settings of the last save_settings call, and whether a call failed
    closed,                   \* window::close(MAIN) has been issued
    killRequested,            \* history: pids kill_process was called for
    last,                     \* history: the message update handled last
    intents,                  \* history: number of user-interface messages so far
    ui_logs,                  \* the buffer add_log_impl (ui.rs) is applied to
    appended,                 \* history: the messages given to add_log since the last clear
    appends                   \* history: number of add_log calls and clears on a prepared buffer

lvars == <<settings, is_running, logs, subscription_id_counter, subscription_id,
           actual_pid, close_requested>>
cvars == <<kills, saves, persist, closed, killRequested>>
vars == <<settings, is_running, logs, subscription_id_counter, subscription_id,
          actual_pid, close_requested, file, queue, streams, kills, saves, persist,
          closed, killRequested, last, intents, ui_logs, appended, appends>>
\* the variables of the log exercise, and all others but logs
pvars == <<ui_logs, appended, appends>>
mvars == <<settings, is_running, subscription_id_counter, subscription_id,
           actual_pid, close_requested, file, queue, streams, kills, saves,
           persist, closed, killRequested, last, intents>>

\* AppSettings of main.rs: no last_pid field
AppSettings(path, key) == [executable_path |-> path, api_key |-> key]
AppSettingsDefault == AppSettings(None, "")

\* content of the settings file; last_pid is the field settings.rs declares
FileContent(path, key, pid) == [executable_path |-> path, api_key |-> key, last_pid |-> pid]

\* serde_json::from_str into the AppSettings of main.rs: unknown fields are dropped
load_settings(f) == AppSettings(f.executable_path, f.api_key)

\* serde_json::to_string_pretty of the AppSettings of main.rs, written over the file
save_settings(st) == FileContent(st.executable_path, st.api_key, None)

\* Messages
\* SettingsLoaded(Ok(settings)) and SettingsLoaded(Err(e))
MsgSettingsLoaded(st) == [type |-> "SettingsLoaded", ok |-> TRUE, settings |-> st]
MsgSettingsLoadError == [type |-> "SettingsLoaded", ok |-> FALSE, settings |-> AppSettingsDefault]
MsgSettingsSaved(ok) == [type |-> "SettingsSaved", ok |-> ok]
MsgProcessActualPid(pid) == [type |-> "ProcessActualPid", pid |-> pid]
MsgProcessOutput(line, src) == [type |-> "ProcessOutput", line |-> line, src |-> src]
MsgProcessTerminated(code, src) == [type |-> "ProcessTerminated", code |-> code, src |-> src]
MsgProcessError(err, src) == [type |-> "ProcessError", err |-> err, src |-> src]
\* result is Ok: ok is TRUE; Err(e): ok is FALSE and err is the message e
MsgProcessKillResult(result, pid) ==
    [type |-> "ProcessKillResult", ok |-> result.ok, err |-> result.err, pid |-> pid]

\* the pid the operating system gives the child of the i-th stream
PidOf(i) == i

\* ProcessListener::new(id, path, api_key) and the start of its stream
NewStream(id, path, key) ==
    [id |-> id, path |-> path, api_key |-> key,
     rx |-> TRUE,          \* the receiver of the channel is held by the runtime
     main |-> "start",     \* position of the spawned main task
     child |-> "none",     \* the child process
     out |-> 0, err |-> 0, \* lines sent by the stdout / stderr reader
     reading_out |-> TRUE, \* the loop of the stdout reader has not ended
     reading_err |-> TRUE, \* the loop of the stderr reader has not ended
     code |-> 0]           \* exit code of the child once it has exited

\* Launcher::subscription followed by the runtime's tracker: a recipe whose
\* hash (the id) is no longer returned loses its stream, a new hash starts one
Wanted(run, id, st) ==
    run /\ IsSome(id) /\ IsSome(st.executable_path) /\ st.api_key # ""

subscription(run, id, st, strs) ==
    LET wanted == Wanted(run, id, st)
        keep(s) == s.rx /\ wanted /\ s.id = Unwrap(id)
        kept == [i \in DOMAIN strs |-> [strs[i] EXCEPT !.rx = keep(strs[i])]]
    IN IF wanted /\ ~(\E i \in DOMAIN strs : keep(strs[i]))
       THEN Append(kept, NewStream(Unwrap(id), Unwrap(st.executable_path), st.api_key))
       ELSE kept

Init ==
    /\ settings = AppSettingsDefault
    /\ is_running = FALSE
    /\ logs = <<>>
    /\ subscription_id_counter = 0
    /\ subscription_id = None
    /\ actual_pid = None
    /\ close_requested = FALSE
    /\ file \in {FileContent(None, "", None)}
           \cup {FileContent(Some(p), "k", pid) : p \in Paths, pid \in {None, Some(StalePid)}}
    /\ queue \in {<< MsgSettingsLoaded(load_settings(file)) >>, << MsgSettingsLoadError >>}
    /\ streams = <<>>
    /\ kills = <<>>
    /\ saves = <<>>
    /\ persist = [last |-> None, failed |-> FALSE]
    /\ closed = FALSE
    /\ killRequested = {}
    /\ last = [type |-> "new", running |-> FALSE, pid |-> None]
    /\ intents = 0
    /\ ui_logs = <<>>
    /\ appended = <<>>
    /\ appends = 0

\* ------------------------------------------------------------------------
\* Launcher::update, one action per match arm
\* ------------------------------------------------------------------------
KillCommand(pid) ==
    /\ kills' = Append(kills, pid)
    /\ killRequested' = killRequested \cup {pid}

WindowClose == closed' = TRUE

SettingsLoaded(m) ==
    /\ IF m.ok
       THEN /\ settings' = m.settings
            /\ UNCHANGED logs
       ELSE /\ logs' = add_log(logs, Fmt("Error loading settings: {}", 0, 0))
            /\ settings' = AppSettingsDefault
    /\ UNCHANGED <<is_running, subscription_id_counter, subscription_id,
                   actual_pid, close_requested, cvars>>

\* StartButtonPressed without the early return on is_running
StartButtonPressed_NoGuard ==
    IF IsSome(settings.executable_path) /\ settings.api_key # ""
    THEN /\ logs' = add_log(<<>>, Fmt("Starting process via subscription...", 0, 0))
         /\ is_running' = TRUE
         /\ subscription_id' = Some(subscription_id_counter)
         /\ subscription_id_counter' = subscription_id_counter + 1
         /\ actual_pid' = None
         /\ UNCHANGED <<settings, close_requested, cvars>>
    ELSE /\ logs' = add_log(logs, Fmt("Error: check the path and the API key.", 0, 0))
         /\ UNCHANGED <<settings, is_running, subscription_id_counter,
                        subscription_id, actual_pid, close_requested, cvars>>

\* StartButtonPressed that takes the counter as the id and leaves it alone
StartButtonPressed_ReuseId ==
    IF is_running
    THEN UNCHANGED <<lvars, cvars>>
    ELSE IF IsSome(settings.executable_path) /\ settings.api_key # ""
    THEN /\ logs' = add_log(<<>>, Fmt("Starting process via subscription...", 0, 0))
         /\ is_running' = TRUE
         /\ subscription_id' = Some(subscription_id_counter)
         /\ actual_pid' = None
         /\ UNCHANGED <<settings, subscription_id_counter, close_requested, cvars>>
    ELSE /\ logs' = add_log(logs, Fmt("Error: check the path and the API key.", 0, 0))
         /\ UNCHANGED <<settings, is_running, subscription_id_counter,
                        subscription_id, actual_pid, close_requested, cvars>>

\* StartButtonPressed without the test of the path and the key
StartButtonPressed_NoCheck ==
    IF is_running
    THEN UNCHANGED <<lvars, cvars>>
    ELSE /\ logs' = add_log(<<>>, Fmt("Starting process via subscription...", 0, 0))
         /\ is_running' = TRUE
         /\ subscription_id' = Some(subscription_id_counter)
         /\ subscription_id_counter' = subscription_id_counter + 1
         /\ actual_pid' = None
         /\ UNCHANGED <<settings, close_requested, cvars>>

StartButtonPressed ==
    IF is_running
    THEN UNCHANGED <<lvars, cvars>>
    ELSE IF IsSome(settings.executable_path) /\ settings.api_key # ""
    THEN /\ logs' = add_log(<<>>, Fmt("Starting process via subscription...", 0, 0))
         /\ is_running' = TRUE
         /\ subscription_id' = Some(subscription_id_counter)
         /\ subscription_id_counter' = subscription_id_counter + 1
         /\ actual_pid' = None
         /\ UNCHANGED <<settings, close_requested, cvars>>
    ELSE /\ logs' = add_log(logs, Fmt("Error: check the path and the API key.", 0, 0))
         /\ UNCHANGED <<settings, is_running, subscription_id_counter,
                        subscription_id, actual_pid, close_requested, cvars>>

\* StopButtonPressed that leaves subscription_id as it is
StopButtonPressed_KeepsId ==
    /\ actual_pid' = None
    /\ is_running' = FALSE
    /\ IF IsSome(actual_pid)
       THEN /\ logs' = add_log(logs, Fmt("Stopping process (PID: {})...", Unwrap(actual_pid), 0))
            /\ KillCommand(Unwrap(actual_pid))
            /\ UNCHANGED <<saves, persist, closed>>
       ELSE /\ logs' = add_log(logs, Fmt("Process not running or PID unknown.", 0, 0))
            /\ UNCHANGED cvars
    /\ UNCHANGED <<settings, subscription_id, subscription_id_counter, close_requested>>

StopButtonPressed ==
    /\ actual_pid' = None
    /\ is_running' = FALSE
    /\ subscription_id' = None
    /\ IF IsSome(actual_pid)
       THEN /\ logs' = add_log(logs, Fmt("Stopping process (PID: {})...", Unwrap(actual_pid), 0))
            /\ KillCommand(Unwrap(actual_pid))
            /\ UNCHANGED <<saves, persist, closed>>
       ELSE /\ logs' = add_log(logs, Fmt("Process not running or PID unknown.", 0, 0))
            /\ UNCHANGED cvars
    /\ UNCHANGED <<settings, subscription_id_counter, close_requested>>

ProcessActualPid(m) ==
    /\ logs' = add_log(logs, Fmt("Process started (PID: {}).", m.pid, 0))
    /\ actual_pid' = Some(m.pid)
    /\ UNCHANGED <<settings, is_running, subscription_id_counter, subscription_id,
                   close_requested, cvars>>

ProcessOutput(m) ==
    /\ logs' = add_log(logs, m.line)
    /\ UNCHANGED <<settings, is_running, subscription_id_counter, subscription_id,
                   actual_pid, close_requested, cvars>>

\* NotRunningThenClose without the close_requested test
NotRunningThenClose_NoClose ==
    /\ is_running' = FALSE
    /\ subscription_id' = None
    /\ actual_pid' = None
    /\ UNCHANGED <<settings, subscription_id_counter, close_requested, cvars>>

\* the tail shared by ProcessTerminated, ProcessError and ProcessKillResult
NotRunningThenClose ==
    /\ is_running' = FALSE
    /\ subscription_id' = None
    /\ actual_pid' = None
    /\ IF close_requested THEN WindowClose ELSE UNCHANGED closed
    /\ UNCHANGED <<settings, subscription_id_counter, close_requested,
                   kills, saves, persist, killRequested>>

ProcessTerminated(m) ==
    /\ logs' = add_log(logs, Fmt("Process exited (code: {}).", m.code, 0))
    /\ NotRunningThenClose

ProcessError(m) ==
    /\ logs' = add_log(logs, m.err)
    /\ NotRunningThenClose

\* ProcessKillResult that ignores an Err result
ProcessKillResult_ErrIgnored(m) ==
    IF m.ok
    THEN /\ logs' = add_log(logs, Fmt("Stop command sent.", 0, 0))
         /\ NotRunningThenClose
    ELSE UNCHANGED <<lvars, cvars>>

ProcessKillResult(m) ==
    /\ logs' = IF m.ok
               THEN add_log(logs, Fmt("Stop command sent.", 0, 0))
               ELSE add_log(logs, Fmt("Error sending stop command: {}", 0, 0) \o m.err)
    /\ NotRunningThenClose

SaveCommand(st) ==
    /\ saves' = Append(saves, st)
    /\ persist' = [persist EXCEPT !.last = Some(st)]

ExecutablePathSelected(path) ==
    /\ settings' = [settings EXCEPT !.executable_path = Some(path)]
    /\ logs' = add_log(logs, Fmt("Selected path: {:?}", 0, 0))
    /\ SaveCommand(settings')
    /\ UNCHANGED <<is_running, subscription_id_counter, subscription_id, actual_pid,
                   close_requested, kills, closed, killRequested>>

ApiKeyChanged(new_key) ==
    /\ settings' = [settings EXCEPT !.api_key = new_key]
    /\ SaveCommand(settings')
    /\ UNCHANGED <<is_running, logs, subscription_id_counter, subscription_id,
                   actual_pid, close_requested, kills, closed, killRequested>>

\* SettingsSaved that treats a failed write as the end of the run
SettingsSaved_ErrStops(m) ==
    /\ logs' = IF m.ok THEN logs
               ELSE add_log(logs, Fmt("Error saving settings: {}", 0, 0))
    /\ is_running' = (is_running /\ m.ok)
    /\ subscription_id' = IF m.ok THEN subscription_id ELSE None
    /\ actual_pid' = IF m.ok THEN actual_pid ELSE None
    /\ UNCHANGED <<settings, subscription_id_counter, close_requested, cvars>>

SettingsSaved(m) ==
    /\ logs' = IF m.ok THEN logs
               ELSE add_log(logs, Fmt("Error saving settings: {}", 0, 0))
    /\ UNCHANGED <<settings, is_running, subscription_id_counter, subscription_id,
                   actual_pid, close_requested, cvars>>

\* CloseRequested without the kill_process command for a running child
CloseRequested_NoKill ==
    /\ close_requested' = TRUE
    /\ LET lg == add_log(logs, Fmt("Window close requested...", 0, 0))
       IN IF is_running
          THEN IF IsSome(actual_pid)
               THEN /\ logs' = add_log(lg, Fmt("Stopping process (PID: {}) before closing.", Unwrap(actual_pid), 0))
                    /\ UNCHANGED <<is_running, subscription_id, cvars>>
               ELSE /\ logs' = add_log(lg, Fmt("Process was started but PID not found. Closing window.", 0, 0))
                    /\ is_running' = FALSE
                    /\ subscription_id' = None
                    /\ WindowClose
                    /\ UNCHANGED <<kills, saves, persist, killRequested>>
          ELSE /\ logs' = add_log(lg, Fmt("Process not running. Closing window.", 0, 0))
               /\ WindowClose
               /\ UNCHANGED <<is_running, subscription_id, kills, saves, persist, killRequested>>
    /\ UNCHANGED <<settings, subscription_id_counter, actual_pid>>

\* EventOccurred(Event::Window(MAIN, CloseRequested))
CloseRequested ==
    /\ close_requested' = TRUE
    /\ LET lg == add_log(logs, Fmt("Window close requested...", 0, 0))
       IN IF is_running
          THEN IF IsSome(actual_pid)
               THEN /\ logs' = add_log(lg, Fmt("Stopping process (PID: {}) before closing.", Unwrap(actual_pid), 0))
                    /\ KillCommand(Unwrap(actual_pid))
                    /\ UNCHANGED <<is_running, subscription_id, saves, persist, closed>>
               ELSE /\ logs' = add_log(lg, Fmt("Process was started but PID not found. Closing window.", 0, 0))
                    /\ is_running' = FALSE
                    /\ subscription_id' = None
                    /\ WindowClose
                    /\ UNCHANGED <<kills, saves, persist, killRequested>>
          ELSE /\ logs' = add_log(lg, Fmt("Process not running. Closing window.", 0, 0))
               /\ WindowClose
               /\ UNCHANGED <<is_running, subscription_id, kills, saves, persist, killRequested>>
    /\ UNCHANGED <<settings, subscription_id_counter, actual_pid>>

\* ------------------------------------------------------------------------
\* The runtime.  update is called for one message at a time and is followed
\* by subscription().  Messages of commands and streams wait in `queue` in
\* the order they were produced; a message of the user interface is handled
\* when it is produced (it may overtake queued messages: the runtime hands a
\* stream's messages on until the recipe is dropped at the end of an update,
\* so they can be queued behind any user-interface message still waiting).
\* The buttons are not gated by the view: update accepts every message in
\* every state.  Once window::close has been issued the application is gone
\* and nothing more happens.
\* ------------------------------------------------------------------------
Dispatch(m) ==
    CASE m.type = "SettingsLoaded" -> SettingsLoaded(m)
      [] m.type = "SettingsSaved" -> SettingsSaved(m)
      [] m.type = "ProcessActualPid" -> ProcessActualPid(m)
      [] m.type = "ProcessOutput" -> ProcessOutput(m)
      [] m.type = "ProcessTerminated" -> ProcessTerminated(m)
      [] m.type = "ProcessError" -> ProcessError(m)
      [] m.type = "ProcessKillResult" -> ProcessKillResult(m)

Tracked ==
    streams' = subscription(is_running', subscription_id', settings', streams)

Handled(type) ==
    last' = [type |-> type, running |-> is_running, pid |-> actual_pid]

\* a message produced by the user interface
Intent(type, handler) ==
    /\ ~closed
    /\ intents < MaxIntents
    /\ intents' = intents + 1
    /\ handler
    /\ Tracked
    /\ Handled(type)
    /\ UNCHANGED <<file, queue, pvars>>

\* a message produced by a command or by a stream
Deliver ==
    /\ ~closed
    /\ queue # <<>>
    /\ Dispatch(Head(queue))
    /\ queue' = Tail(queue)
    /\ Tracked
    /\ Handled(Head(queue).type)
    /\ UNCHANGED <<file, intents, pvars>>

Start == Intent("StartButtonPressed", StartButtonPressed)
Stop == Intent("StopButtonPressed", StopButtonPressed)
Close == Intent("CloseRequested", CloseRequested)
EditKey == \E k \in Keys : Intent("ApiKeyChanged", ApiKeyChanged(k))
EditPath == \E p \in Paths : Intent("ExecutablePathSelected", ExecutablePathSelected(p))

\* ------------------------------------------------------------------------
\* Tasks outside update: the stream's tasks, the child, the command futures.
\* The channel of a stream and the runtime's message queue are one FIFO:
\* a send succeeds while the runtime holds the receiver, and what was sent
\* is delivered.  A reader task whose send fails ends without any effect,
\* so the reader actions are enabled only while the receiver lives.
\* child.id() is Some right after a successful spawn, so the branch for
\* None (main.rs:339-345) is not taken.
\* ------------------------------------------------------------------------
\* sender.send(m): the message reaches the runtime while the receiver lives
Send(i, m) ==
    IF streams[i].rx
    THEN queue' = Append(queue, m) /\ Len(queue') <= MaxQueue
    ELSE UNCHANGED queue

Background == ~closed /\ UNCHANGED <<lvars, last, intents, pvars>>

\* TokioCommand::new(path).arg("-k").arg(api_key)...spawn()
Spawn(i) ==
    /\ Background
    /\ streams[i].main = "start"
    /\ \/ /\ streams' = [streams EXCEPT ![i].main = "spawned", ![i].child = "live"]
          /\ UNCHANGED queue
       \/ /\ streams' = [streams EXCEPT ![i].main = "returned", ![i].child = "failed"]
          /\ Send(i, MsgProcessError(Fmt("Error starting process {:?}: {}", 0, 0), i))
    /\ UNCHANGED <<file, cvars>>

\* sender.send(ProcessActualPid(pid)); on failure the task returns and the
\* Child is dropped (kill_on_drop), on success the three tasks are spawned
SendPid(i) ==
    /\ Background
    /\ streams[i].main = "spawned"
    /\ IF streams[i].rx
       THEN /\ streams' = [streams EXCEPT ![i].main = "tasks"]
            /\ Send(i, MsgProcessActualPid(PidOf(i)))
       ELSE /\ streams' = [streams EXCEPT ![i].main = "returned", ![i].child = "reaped"]
            /\ UNCHANGED queue
    /\ UNCHANGED <<file, cvars>>

\* the number of lines the reader tasks have read so far (bounded by MaxOut)
RECURSIVE LinesRead(_)
LinesRead(strs) ==
    IF strs = <<>> THEN 0
    ELSE Head(strs).out + Head(strs).err + LinesRead(Tail(strs))

\* a line of the child's stdout, read by the stdout task
StdoutLine(i) ==
    /\ Background
    /\ streams[i].main = "tasks"
    /\ streams[i].child \in {"live", "exited", "reaped"}
    /\ streams[i].rx
    /\ streams[i].reading_out
    /\ LinesRead(streams) < MaxOut
    /\ streams' = [streams EXCEPT ![i].out = @ + 1]
    /\ Send(i, MsgProcessOutput(Fmt("out", i, streams[i].out + 1), i))
    /\ UNCHANGED <<file, cvars>>

\* a line of the child's stderr, read by the stderr task
StderrLine(i) ==
    /\ Background
    /\ streams[i].main = "tasks"
    /\ streams[i].child \in {"live", "exited", "reaped"}
    /\ streams[i].rx
    /\ streams[i].reading_err
    /\ LinesRead(streams) < MaxOut
    /\ streams' = [streams EXCEPT ![i].err = @ + 1]
    /\ Send(i, MsgProcessOutput(StderrPrefixed(Fmt("err", i, streams[i].err + 1)), i))
    /\ UNCHANGED <<file, cvars>>

\* the number of reader loops a read error has ended (bounded by MaxReadErrors)
RECURSIVE ReadErrors(_)
ReadErrors(strs) ==
    IF strs = <<>> THEN 0
    ELSE (IF Head(strs).reading_out THEN 0 ELSE 1)
         + (IF Head(strs).reading_err THEN 0 ELSE 1)
         + ReadErrors(Tail(strs))

\* reader.next_line() of the stdout task returns Err, reported as a
\* ProcessError
StdoutReadError_Surfaced(i) ==
    /\ Background
    /\ streams[i].main = "tasks"
    /\ streams[i].reading_out
    /\ ReadErrors(streams) < MaxReadErrors
    /\ streams' = [streams EXCEPT ![i].reading_out = FALSE]
    /\ Send(i, MsgProcessError(Fmt("Error reading stdout: {}", 0, 0), i))
    /\ UNCHANGED <<file, cvars>>

\* reader.next_line() of the stdout task returns Err: `while let Ok(Some(line))`
\* does not match and the task ends
StdoutReadError(i) ==
    /\ Background
    /\ streams[i].main = "tasks"
    /\ streams[i].reading_out
    /\ ReadErrors(streams) < MaxReadErrors
    /\ streams' = [streams EXCEPT ![i].reading_out = FALSE]
    /\ UNCHANGED <<file, queue, cvars>>

\* reader.next_line() of the stderr task returns Err
StderrReadError(i) ==
    /\ Background
    /\ streams[i].main = "tasks"
    /\ streams[i].reading_err
    /\ ReadErrors(streams) < MaxReadErrors
    /\ streams' = [streams EXCEPT ![i].reading_err = FALSE]
    /\ UNCHANGED <<file, queue, cvars>>

\* the child ends by itself
ChildExit(i) ==
    /\ Background
    /\ streams[i].child = "live"
    /\ \E c \in ExitCodes : streams' = [streams EXCEPT ![i].child = "exited", ![i].code = c]
    /\ UNCHANGED <<file, queue, cvars>>

\* child.wait() returns in the exit-watch task
WatchSend(i) ==
    /\ Background
    /\ streams[i].main = "tasks"
    /\ streams[i].child = "exited"
    /\ streams' = [streams EXCEPT ![i].child = "reaped"]
    /\ \/ Send(i, MsgProcessTerminated(streams[i].code, i))
       \/ Send(i, MsgProcessError(Fmt("Error waiting for process PID {}: {}", PidOf(i), 0), i))
    /\ UNCHANGED <<file, cvars>>

RemoveAt(seq, j) == SubSeq(seq, 1, j - 1) \o SubSeq(seq, j + 1, Len(seq))

\* a process the kill command can signal: a child that runs, or one that has
\* exited and has not been waited for
Exists(pid, strs) ==
    \E i \in DOMAIN strs : PidOf(i) = pid /\ strs[i].child \in {"live", "exited"}

\* TokioCommand::new("kill").arg(pid).output(): the command signals the
\* process and exits with status 0, or finds no such process and exits with
\* status 1, or cannot be run at all
KillOutput(pid, strs) ==
    IF Exists(pid, strs) THEN {"status 0", "not run"} ELSE {"status 1", "not run"}

\* kill_process: Ok(()) if output.status.success(), otherwise Err with the
\* status, and Err with the error if the command could not be run
Ok == [ok |-> TRUE, err |-> <<>>]
Err(e) == [ok |-> FALSE, err |-> e]

kill_process(pid, output) ==
    CASE output = "status 0" -> Ok
      [] output = "status 1" -> Err(Fmt("kill for PID {} ended with status: {}", pid, 1))
      [] output = "not run" -> Err(Fmt("Error running kill for PID {}: {}", pid, 0))

\* kill_process(pid) completes; the signal ends a running child
KillDone(j) ==
    /\ Background
    /\ LET pid == kills[j]
       IN \E output \in KillOutput(pid, streams) :
            /\ streams' = [i \in DOMAIN streams |->
                             IF output = "status 0" /\ PidOf(i) = pid /\ streams[i].child = "live"
                             THEN [streams[i] EXCEPT !.child = "exited", !.code = SignalCode]
                             ELSE streams[i]]
            /\ queue' = Append(queue, MsgProcessKillResult(kill_process(pid, output), pid))
    /\ Len(queue') <= MaxQueue
    /\ kills' = RemoveAt(kills, j)
    /\ UNCHANGED <<file, saves, persist, closed, killRequested>>

\* save_settings(path, settings) completes
SaveDone(j) ==
    /\ Background
    /\ \E ok \in BOOLEAN :
         /\ file' = IF ok THEN save_settings(saves[j]) ELSE file
         /\ queue' = Append(queue, MsgSettingsSaved(ok))
         /\ persist' = [persist EXCEPT !.failed = @ \/ ~ok]
    /\ Len(queue') <= MaxQueue
    /\ saves' = RemoveAt(saves, j)
    /\ UNCHANGED <<streams, kills, closed, killRequested>>

Next ==
    \/ Start
    \/ Stop
    \/ Close
    \/ EditKey
    \/ EditPath
    \/ Deliver
    \/ \E i \in DOMAIN streams : Spawn(i)
    \/ \E i \in DOMAIN streams : SendPid(i)
    \/ \E i \in DOMAIN streams : StdoutLine(i)
    \/ \E i \in DOMAIN streams : StderrLine(i)
    \/ \E i \in DOMAIN streams : ChildExit(i)
    \/ \E i \in DOMAIN streams : WatchSend(i)
    \/ \E j \in DOMAIN kills : KillDone(j)
    \/ \E j \in DOMAIN saves : SaveDone(j)

Spec == Init /\ [][Next]_vars

\* The same program with pipes whose reads can fail.  For update a failed
\* read is a reader that sends no further line, which Spec allows at any
\* moment.
ReadNext ==
    \/ Next
    \/ \E i \in DOMAIN streams : StdoutReadError(i)
    \/ \E i \in DOMAIN streams : StderrReadError(i)

ReadSpec == Init /\ [][ReadNext]_vars

\* The launcher driven by its Start and Stop buttons alone, pressed more
\* often than Spec allows: the child is spawned and reports its pid, kills
\* complete, and the child writes nothing and does not end by itself.
Press(type, handler) ==
    /\ ~closed
    /\ intents < MaxPresses
    /\ intents' = intents + 1
    /\ handler
    /\ Tracked
    /\ Handled(type)
    /\ UNCHANGED <<file, queue, pvars>>

PressNext ==
    \/ Press("StartButtonPressed", StartButtonPressed)
    \/ Press("StopButtonPressed", StopButtonPressed)
    \/ Deliver
    \/ \E i \in DOMAIN streams : Spawn(i)
    \/ \E i \in DOMAIN streams : SendPid(i)
    \/ \E j \in DOMAIN kills : KillDone(j)

PressSpec == Init /\ [][PressNext]_vars

\* The runtime hands every queued message to update, and every kill_process
\* future it polls completes
LiveSpec ==
    /\ Spec
    /\ WF_vars(Deliver)
    /\ WF_vars(\E j \in DOMAIN kills : KillDone(j))

\* ... and the exit-watch task of every stream is scheduled: child.wait()
\* returns once the child has exited and the task sends its message
ExitSpec ==
    /\ LiveSpec
    /\ WF_vars(\E i \in DOMAIN streams : WatchSend(i))

\* ------------------------------------------------------------------------
\* The log on its own: add_log and add_log_impl applied to given lines
\* ------------------------------------------------------------------------
\* Launcher::new, without the log and with nothing in flight
LauncherNew ==
    /\ settings = AppSettingsDefault
    /\ is_running = FALSE
    /\ subscription_id_counter = 0
    /\ subscription_id = None
    /\ actual_pid = None
    /\ close_requested = FALSE
    /\ file = FileContent(None, "", None)
    /\ queue = <<>>
    /\ streams = <<>>
    /\ kills = <<>>
    /\ saves = <<>>
    /\ persist = [last |-> None, failed |-> FALSE]
    /\ closed = FALSE
    /\ killRequested = {}
    /\ last = [type |-> "new", running |-> FALSE, pid |-> None]
    /\ intents = 0

\* the blocks ansi_parse() can yield for a line: runs of text, graphics-mode
\* sequences (reset, foreground colours, bold, a background colour, several
\* parameters in one sequence) and an escape of another kind
Blocks ==
    {TextBlock(<< Sym("x", 0, 0) >>), TextBlock(<< Sym("y", 0, 0) >>),
     Sgr(<<>>), Sgr(<<0>>), Sgr(<<31>>), Sgr(<<39>>), Sgr(<<92>>),
     Sgr(<<1>>), Sgr(<<41>>), Sgr(<<1, 32>>), Sgr(<<31, 32>>), Sgr(<<32, 0>>),
     OtherEscape}

\* the lines of at most MaxBlocks blocks
Lines == UNION {[1..n -> Blocks] : n \in 0..MaxBlocks}

\* a few lines: the empty line, a line of escapes only, plain text, text
\* that leaves a colour active at its end
FewLines ==
    {<<>>,
     << Sgr(<<31>>) >>,
     << TextBlock(<< Sym("x", 0, 0) >>) >>,
     << Sgr(<<31>>), TextBlock(<< Sym("y", 0, 0) >>) >>}

\* the i-th line of a prepared buffer
OldMessage(i) == << Sgr(<<31>>), TextBlock(<< Sym("old", i, 0) >>) >>

\* sizes of the prepared buffers: empty, one below capacity, at capacity
BufferSizes == {0, MAX_LOG_LINES - 1, MAX_LOG_LINES}

\* self.add_log(message), and add_log_impl(&mut logs, message) on its buffer
AppendLine(l) ==
    /\ logs' = add_log(logs, l)
    /\ ui_logs' = add_log_impl(ui_logs, l)
    /\ appended' = Append(appended, l)
    /\ appends' = appends + 1
    /\ UNCHANGED mvars

\* self.logs.clear()
ClearLog ==
    /\ logs # <<>>
    /\ logs' = <<>>
    /\ ui_logs' = <<>>
    /\ appended' = <<>>
    /\ appends' = appends + 1
    /\ UNCHANGED mvars

\* a buffer that n non-empty lines were appended to
LogInit ==
    /\ LauncherNew
    /\ \E n \in BufferSizes :
         /\ appended = [i \in 1..n |-> OldMessage(i)]
         /\ logs = [i \in 1..n |-> ParseSegments(OldMessage(i))]
         /\ ui_logs = [i \in 1..n |-> ParseSegmentsImpl(OldMessage(i))]
    /\ appends = 0

LogNext ==
    \/ \E l \in FewLines : appends < MaxAppends /\ AppendLine(l)
    \/ appends < MaxAppends /\ ClearLog

LogSpec == LogInit /\ [][LogNext]_vars

\* one line given to the parser of a new launcher
LineInit ==
    /\ LauncherNew
    /\ logs = <<>>
    /\ ui_logs = <<>>
    /\ appended = <<>>
    /\ appends = 0

LineNext == \E l \in Lines : appends = 0 /\ AppendLine(l)

LineSpec == LineInit /\ [][LineNext]_vars

\* ------------------------------------------------------------------------
\* Derived notions
\* ------------------------------------------------------------------------
\* children of the launcher that are running
LiveChildren == {i \in DOMAIN streams : streams[i].child = "live"}

\* a kill_process call whose ProcessKillResult update has still to run
KillOutstanding(kl, q) ==
    kl # <<>> \/ \E k \in DOMAIN q : q[k].type = "ProcessKillResult"

\* the lifecycle of the specification, read off the launcher's fields
LifecycleOf(run, pid, kl, q) ==
    IF run THEN (IF IsSome(pid) THEN "Running" ELSE "Launching")
    ELSE IF KillOutstanding(kl, q) THEN "Stopping"
    ELSE "Idle"

Lifecycle == LifecycleOf(is_running, actual_pid, kills, queue)

\* the step is update(m) for the message at the head of the queue
Delivers(type) ==
    queue # <<>> /\ queue' = Tail(queue) /\ Head(queue).type = type

\* the step is update(m) for a user-interface message
IntentStep(type) ==
    intents' = intents + 1 /\ last'.type = type

\* the symbols of all lines of the log
LogSymbols ==
    UNION { UNION { {logs[i][j].text[k] : k \in DOMAIN logs[i][j].text}
                    : j \in DOMAIN logs[i] }
            : i \in DOMAIN logs }

\* the symbols of a sequence of records with a text field (the segments of
\* a log line, the blocks of a String)
SymbolsOf(parts) ==
    UNION { {parts[j].text[k] : k \in DOMAIN parts[j].text} : j \in DOMAIN parts }

\* what has been sent by the reader tasks and not been dropped, oldest
\* first: the lines of the log, then the output messages still queued
Timeline ==
    [i \in DOMAIN logs |-> SymbolsOf(logs[i])]
      \o [k \in DOMAIN queue |->
            IF queue[k].type = "ProcessOutput" THEN SymbolsOf(queue[k].line) ELSE {}]

\* the recipe Launcher::subscription builds: ProcessListener::new(id, path,
\* api_key), or none
Recipe(run, id, st) ==
    IF Wanted(run, id, st)
    THEN Some([id |-> Unwrap(id), path |-> Unwrap(st.executable_path),
               api_key |-> st.api_key])
    ELSE None

\* the lines of a sequence of messages that a parser stores in the log
NonEmptyLine(segments) == segments # <<>>

StoredLines(messages) ==
    SelectSeq([i \in DOMAIN messages |-> ParseSegments(messages[i])], NonEmptyLine)

\* the same for add_log_impl
StoredLinesImpl(messages) ==
    SelectSeq([i \in DOMAIN messages |-> ParseSegmentsImpl(messages[i])], NonEmptyLine)

\* the n last elements of a sequence
MostRecent(seq, n) ==
    IF Len(seq) <= n THEN seq ELSE SubSeq(seq, Len(seq) - n + 1, Len(seq))

\* the parameters of a block: those of a graphics-mode sequence, an empty
\* parameter list standing for a reset
CodesOf(block) ==
    IF block.esc /\ block.sgr
    THEN (IF block.codes = <<>> THEN <<0>> ELSE block.codes)
    ELSE <<>>

\* the parameters of the blocks of a line before block k
RECURSIVE CodesBefore(_, _)
CodesBefore(line, k) ==
    IF k <= 1 THEN <<>>
    ELSE CodesBefore(line, k - 1) \o CodesOf(line[k - 1])

\* a foreground-colour or reset parameter
Selecting(code) ==
    \/ code = 0 \/ code = 39
    \/ (code >= 30 /\ code <= 37) \/ (code >= 90 /\ code <= 97)

\* the colour the last selecting parameter of a list selects
SelectedColour(codes) ==
    LET sel == SelectSeq(codes, Selecting)
    IN IF sel = <<>> \/ sel[Len(sel)] \in {0, 39}
       THEN None
       ELSE Some(ansi_to_iced_color(sel[Len(sel)]))

\* each symbol of a text with a colour
Coloured(text, color) == [k \in DOMAIN text |-> << text[k], color >>]

\* the symbols of the plain text of a line, each with the colour selected
\* by what precedes it
RECURSIVE ExpectedColouring(_, _)
ExpectedColouring(line, k) ==
    IF k = 0 THEN <<>>
    ELSE ExpectedColouring(line, k - 1)
           \o Coloured(line[k].text, SelectedColour(CodesBefore(line, k)))

\* the symbols of the segments of a log line, each with its colour
RECURSIVE EmittedColouring(_)
EmittedColouring(segments) ==
    IF segments = <<>> THEN <<>>
    ELSE Coloured(Head(segments).text, Head(segments).color)
           \o EmittedColouring(Tail(segments))

\* escape sequences that select no foreground colour: bold, a background
\* colour, an escape that is no graphics-mode sequence
IgnoredBlocks == {Sgr(<<1>>), Sgr(<<41>>), OtherEscape}

\* the line with a block inserted after its first p blocks
InsertBlock(line, p, block) ==
    SubSeq(line, 1, p) \o << block >> \o SubSeq(line, p + 1, Len(line))

\* the segments stored for the only line appended so far
Emitted(lg) == IF lg = <<>> THEN <<>> ELSE lg[1]

\* the step is the failure of spawn() in the main task of stream i
SpawnFails(i) == streams[i].child = "none" /\ streams'[i].child = "failed"

\* the step is the completion of a kill_process call
KillCompletes ==
    /\ Len(kills') < Len(kills)
    /\ Len(queue') = Len(queue) + 1
    /\ queue'[Len(queue')].type = "ProcessKillResult"

\* the step is a save_settings call that wrote the file
SaveSucceeds ==
    /\ Len(saves') < Len(saves)
    /\ queue' = Append(queue, MsgSettingsSaved(TRUE))

\* the log line add_log stores for a formatted message of the launcher
Line(tag, a, b) == << AnsiSegment(<< Sym(tag, a, b) >>, None) >>

\* the launch settings are complete
Launchable(st) == IsSome(st.executable_path) /\ st.api_key # ""

\* ------------------------------------------------------------------------
\* C1: at most one child process spawned by the launcher is live at any time.
\* ------------------------------------------------------------------------
C1_AtMostOneLiveChild == Cardinality(LiveChildren) <= 1

\* ------------------------------------------------------------------------
\* C2: a Start handled while is_running is a no-op: no stream (child) is
\* started, no subscription id is allocated, and logs, actual_pid,
\* is_running and every other field are left as they were.
\* ------------------------------------------------------------------------
C2_StartWhileRunningNoOp ==
    [][(is_running /\ IntentStep("StartButtonPressed"))
         => UNCHANGED <<lvars, streams, queue, cvars, file>>]_vars

\* a Start was handled while running, with a child live
C2_Witness ==
    /\ last.type = "StartButtonPressed"
    /\ last.running
    /\ is_running
    /\ LiveChildren # {}

\* ------------------------------------------------------------------------
\* C3: an output message of a stream whose id differs from the active
\* subscription id is discarded: handling it changes no launcher field.
\* ------------------------------------------------------------------------
C3_StaleOutputDiscarded ==
    [][(/\ Delivers("ProcessOutput")
        /\ IsSome(subscription_id)
        /\ Unwrap(subscription_id) # streams[Head(queue).src].id)
         => UNCHANGED lvars]_vars

\* ------------------------------------------------------------------------
\* C4: actual_pid is Some if and only if the lifecycle is Launching,
\* Running or Stopping.
\* ------------------------------------------------------------------------
C4_PidIffActive ==
    IsSome(actual_pid) <=> Lifecycle \in {"Launching", "Running", "Stopping"}

\* ------------------------------------------------------------------------
\* C5: after a Start has cleared the log, no line of an earlier run (an
\* output line, a PID report, a kill failure report) is in the log.
\* ------------------------------------------------------------------------
C5_NoCrossRunBleed ==
    \A sym \in LogSymbols :
        /\ sym.tag \in {"out", "err", "Process started (PID: {}).",
                        "kill for PID {} ended with status: {}",
                        "Error running kill for PID {}: {}"}
             => streams[sym.a].id = subscription_id_counter - 1

\* ------------------------------------------------------------------------
\* C6: while the settings file holds a stale last_pid, a child is spawned
\* only after a kill of that pid has been requested and has completed.
\* ------------------------------------------------------------------------
C6_StaleKillBeforeSpawn ==
    (/\ file.last_pid = Some(StalePid)
     /\ \E i \in DOMAIN streams : streams[i].child \in {"live", "exited", "reaped"})
      => (/\ StalePid \in killRequested
          /\ \A j \in DOMAIN kills : kills[j] # StalePid)

\* ------------------------------------------------------------------------
\* C7: after a close-request left the close pending (a child was running
\* with a known pid), the close is signalled only by the update that handles
\* a kill result; an exit or error message does not signal it.
\* ------------------------------------------------------------------------
C7_CloseOnlyOnKillResult ==
    [][(close_requested /\ ~closed /\ closed') => Delivers("ProcessKillResult")]_vars

\* ------------------------------------------------------------------------
\* C8: the close is never signalled while a child is live for which no
\* kill has been requested.
\* ------------------------------------------------------------------------
C8_NoCloseWithUnkilledChild ==
    closed => \A i \in LiveChildren : PidOf(i) \in killRequested

\* ------------------------------------------------------------------------
\* C9: handling the exit of the child with code c while Running makes the
\* launcher not running with actual_pid None, appends one line reporting c
\* and leaves no PID in the settings file.
\* ------------------------------------------------------------------------
C9_ExitWhileRunning ==
    [][(Delivers("ProcessTerminated") /\ Lifecycle = "Running")
         => /\ ~is_running'
            /\ actual_pid' = None
            /\ logs' = Append(logs, << AnsiSegment(<< Sym("Process exited (code: {}).",
                                                         Head(queue).code, 0) >>, None) >>)
            /\ file'.last_pid = None]_vars

\* ------------------------------------------------------------------------
\* C10: close_requested is never reset, and a step that brings the
\* lifecycle to Idle while close_requested is set signals the close.
\* ------------------------------------------------------------------------
C10_CloseLatch ==
    [][/\ close_requested => close_requested'
       /\ (/\ close_requested'
           /\ Lifecycle # "Idle"
           /\ LifecycleOf(is_running', actual_pid', kills', queue') = "Idle")
            => closed']_vars

\* the kill result was handled after a close-request: Idle and closed
C10_Witness ==
    /\ last.type = "ProcessKillResult"
    /\ last.running
    /\ close_requested
    /\ closed
    /\ Lifecycle = "Idle"

\* ------------------------------------------------------------------------
\* C11: once the close request for the main window has been handled, the
\* close of the window is eventually issued, provided every kill_process
\* call completes and queued messages are delivered.
\* ------------------------------------------------------------------------
C11_CloseEventually == close_requested ~> closed

\* the window was closed after a kill_process call made by the close request
C11_Witness ==
    /\ closed
    /\ close_requested
    /\ last.type # "CloseRequested"
    /\ killRequested # {}
    /\ kills = <<>>

\* ------------------------------------------------------------------------
\* C12: a Start handled while Idle with no executable path or an empty
\* key appends one error line to the log and changes nothing else: the
\* lifecycle stays Idle, no subscription id is allocated, no stream (child)
\* is started and the lines already in the log are kept.
\* ------------------------------------------------------------------------
C12_StartRejected ==
    [][(/\ IntentStep("StartButtonPressed")
        /\ Lifecycle = "Idle"
        /\ ~Launchable(settings))
         => /\ logs' = Append(logs, Line("Error: check the path and the API key.", 0, 0))
            /\ LifecycleOf(is_running', actual_pid', kills', queue') = "Idle"
            /\ UNCHANGED <<settings, is_running, subscription_id_counter,
                           subscription_id, actual_pid, close_requested,
                           streams, queue, cvars, file>>]_vars

\* a Start was rejected and the earlier lines of the log are still there
C12_Witness ==
    /\ last.type = "StartButtonPressed"
    /\ ~last.running
    /\ ~Launchable(settings)
    /\ Lifecycle = "Idle"
    /\ Len(logs) >= 2
    /\ logs[Len(logs)] = Line("Error: check the path and the API key.", 0, 0)

\* ------------------------------------------------------------------------
\* C13: a Stop handled while the lifecycle is not Running (Idle, Launching
\* or Stopping) changes neither the lifecycle, actual_pid, the subscription
\* id nor the log, and calls no kill_process.
\* ------------------------------------------------------------------------
C13_StopNotRunningNoOp ==
    [][(IntentStep("StopButtonPressed") /\ Lifecycle # "Running")
         => /\ LifecycleOf(is_running', actual_pid', kills', queue') = Lifecycle
            /\ UNCHANGED <<is_running, actual_pid, subscription_id,
                           subscription_id_counter, logs, kills, killRequested>>]_vars

\* ------------------------------------------------------------------------
\* C14: the PID field of the settings file equals actual_pid after every
\* successful save_settings, and it is None whenever the lifecycle is Idle.
\* ------------------------------------------------------------------------
C14_PersistedPidMirrors ==
    /\ [][SaveSucceeds => file'.last_pid = actual_pid']_vars
    /\ [](Lifecycle = "Idle" => file.last_pid = None)

\* ------------------------------------------------------------------------
\* C15: kill_process returns Ok when the process with the given pid no
\* longer exists, unless the kill command could not be run.
\* ------------------------------------------------------------------------
C15_KillOfGoneTargetOk ==
    [][(/\ KillCompletes
        /\ ~Exists(queue'[Len(queue')].pid, streams)
        /\ queue'[Len(queue')].err
             # Fmt("Error running kill for PID {}: {}", queue'[Len(queue')].pid, 0))
         => queue'[Len(queue')].ok]_vars

\* ------------------------------------------------------------------------
\* C16: handling the result of a kill_process call, Ok or Err, leaves the
\* launcher not running with actual_pid None (Idle, unless another kill is
\* still outstanding), and an Err result is reported as one log line.
\* ------------------------------------------------------------------------
C16_KillFailureDoesNotBlock ==
    [][Delivers("ProcessKillResult")
         => /\ ~is_running'
            /\ actual_pid' = None
            /\ LifecycleOf(is_running', actual_pid', kills', queue')
                 = IF KillOutstanding(kills', queue') THEN "Stopping" ELSE "Idle"
            /\ ~Head(queue).ok
                 => logs' = Append(logs,
                       << AnsiSegment(<< Sym("Error sending stop command: {}", 0, 0) >>
                                         \o Head(queue).err[1].text, None) >>)]_vars

\* the kill requested by a Stop failed and the launcher is Idle
C16_Witness ==
    /\ last.type = "ProcessKillResult"
    /\ ~close_requested
    /\ Lifecycle = "Idle"
    /\ actual_pid = None
    /\ \E pid \in killRequested :
         logs[Len(logs)] = << AnsiSegment(<< Sym("Error sending stop command: {}", 0, 0),
                                            Sym("Error running kill for PID {}: {}", pid, 0) >>,
                                         None) >>
    /\ LiveChildren # {}

\* ------------------------------------------------------------------------
\* C17: a failure of spawn() is reported once: one ProcessError message
\* reaches update, which appends one log line and leaves the launcher Idle
\* with actual_pid None; and the spawn is not tried again, no stream is
\* started by the update that handles the error.
\* ------------------------------------------------------------------------
C17_SpawnFailureReportedOnce ==
    [][/\ \A i \in DOMAIN streams :
            SpawnFails(i)
              => queue' = Append(queue,
                    MsgProcessError(Fmt("Error starting process {:?}: {}", 0, 0), i))
       /\ (Delivers("ProcessError") /\ streams[Head(queue).src].child = "failed")
            => /\ logs' = Append(logs, Line("Error starting process {:?}: {}", 0, 0))
               /\ LifecycleOf(is_running', actual_pid', kills', queue') # "Launching"
               /\ ~is_running'
               /\ actual_pid' = None
               /\ Len(streams') = Len(streams)]_vars

\* ------------------------------------------------------------------------
\* C18: the lines a reader task read from the child's stdout (stderr) reach
\* update and the log in the order they were read: of two lines of the
\* same stream and the same pipe, the one read first comes first in the
\* log followed by the queue.
\* ------------------------------------------------------------------------
C18_StreamOrderPreserved ==
    LET tl == Timeline
    IN \A j \in DOMAIN tl : \A y \in tl[j] :
         y.tag \in {"out", "err"}
           => \A i \in 1..(j - 1) : \A x \in tl[i] :
                (x.tag = y.tag /\ x.a = y.a) => x.b < y.b

\* two lines of one child's stdout are in the log
C18_Witness ==
    \E i \in DOMAIN logs : \E j \in DOMAIN logs :
        /\ i < j
        /\ \E s \in DOMAIN streams :
             /\ Sym("out", s, 1) \in SymbolsOf(logs[i])
             /\ Sym("out", s, 2) \in SymbolsOf(logs[j])

\* ------------------------------------------------------------------------
\* C19: once every save_settings call issued by the key and path changes
\* has completed, none of them with an error, the settings in the file are
\* those of the last change.
\* ------------------------------------------------------------------------
C19_LastSaveWins ==
    (saves = <<>> /\ IsSome(persist.last) /\ ~persist.failed)
      => load_settings(file) = Unwrap(persist.last)

\* ------------------------------------------------------------------------
\* C20: a key change or a path selection handled while the lifecycle is
\* Launching or Running does not change the path and the key the recipe of
\* the current run is built from, and leaves the run's stream as it is.
\* ------------------------------------------------------------------------
C20_LaunchSpecImmutable ==
    [][(/\ IntentStep("ApiKeyChanged") \/ IntentStep("ExecutablePathSelected")
        /\ Lifecycle \in {"Launching", "Running"})
         => /\ Recipe(is_running', subscription_id', settings')
                 = Recipe(is_running, subscription_id, settings)
            /\ streams' = streams]_vars

\* ------------------------------------------------------------------------
\* C21: whatever lines are appended and whenever the log is cleared, the
\* log never holds more than MAX_LOG_LINES lines (in main.rs and in ui.rs).
\* ------------------------------------------------------------------------
C21_LogWithinCapacity ==
    Len(logs) <= MAX_LOG_LINES /\ Len(ui_logs) <= MAX_LOG_LINES

\* a line was stored in a buffer that was at capacity
C21_Witness ==
    /\ appends > 0
    /\ Len(StoredLines(appended)) > MAX_LOG_LINES
    /\ Len(logs) = MAX_LOG_LINES
    /\ logs[Len(logs)] = ParseSegments(appended[Len(appended)])

\* ------------------------------------------------------------------------
\* C22: once more than MAX_LOG_LINES lines have been appended since the
\* last clear, the log holds exactly the MAX_LOG_LINES most recently
\* appended non-empty lines, in the order they were appended.
\* ------------------------------------------------------------------------
C22_LogKeepsMostRecent ==
    Len(appended) > MAX_LOG_LINES
      => /\ logs = MostRecent(StoredLines(appended), MAX_LOG_LINES)
         /\ ui_logs = MostRecent(StoredLinesImpl(appended), MAX_LOG_LINES)

\* ------------------------------------------------------------------------
\* C23: no segment the parser emits for a line has an empty text, whatever
\* the line: escape sequences in a row, at the start or at the end of the
\* line, or the empty line (in main.rs and in ui.rs).
\* ------------------------------------------------------------------------
C23_NoEmptySegment ==
    /\ \A i \in DOMAIN logs : \A j \in DOMAIN logs[i] : logs[i][j].text # <<>>
    /\ \A i \in DOMAIN ui_logs : \A j \in DOMAIN ui_logs[i] : ui_logs[i][j].text # <<>>

\* a line that starts with two escape sequences and ends with one was parsed
C23_Witness ==
    /\ appended = << << Sgr(<<31>>), Sgr(<<0>>), TextBlock(<< Sym("x", 0, 0) >>),
                        Sgr(<<92>>) >> >>
    /\ logs = << << AnsiSegment(<< Sym("x", 0, 0) >>, None) >> >>
    /\ ui_logs = logs

\* ------------------------------------------------------------------------
\* C24: every piece of plain text of a line is emitted with the colour
\* selected by the last foreground-colour or reset parameter before it (a
\* parameter 30..37 or 90..97 selects its palette entry; 0, 39 or an empty
\* list select none; of several parameters the last one wins), and
\* ESC[31m x ESC[0m y is parsed to (x, red), (y, none).
\* ------------------------------------------------------------------------
C24_ColourOfText ==
    appends = 1
      => LET line == appended[1]
             emitted == IF logs = <<>> THEN <<>> ELSE logs[1]
         IN /\ EmittedColouring(emitted) = ExpectedColouring(line, Len(line))
            /\ line = << Sgr(<<31>>), TextBlock(<< Sym("x", 0, 0) >>),
                         Sgr(<<0>>), TextBlock(<< Sym("y", 0, 0) >>) >>
                 => emitted = << AnsiSegment(<< Sym("x", 0, 0) >>, Some(<<205, 92, 92>>)),
                                 AnsiSegment(<< Sym("y", 0, 0) >>, None) >>

\* the line ESC[31m x ESC[0m y was parsed
C24_Witness ==
    /\ appended = << << Sgr(<<31>>), TextBlock(<< Sym("x", 0, 0) >>),
                        Sgr(<<0>>), TextBlock(<< Sym("y", 0, 0) >>) >> >>
    /\ Len(logs) = 1
    /\ Len(logs[1]) = 2

\* ------------------------------------------------------------------------
\* C25: an escape sequence that is neither a foreground colour nor a
\* reset leaves no trace: the line with such a sequence inserted at any
\* place is parsed to the same segments as the line itself (in main.rs and
\* in ui.rs).
\* ------------------------------------------------------------------------
C25_IgnoredSequencesLeaveNoTrace ==
    appends = 1
      => \A p \in 0..Len(appended[1]) : \A block \in IgnoredBlocks :
           /\ ParseSegments(InsertBlock(appended[1], p, block)) = Emitted(logs)
           /\ ParseSegmentsImpl(InsertBlock(appended[1], p, block)) = Emitted(ui_logs)

\* ------------------------------------------------------------------------
\* C26: the parser keeps no state between calls: the segments stored for a
\* line are those the same line gives in an empty log, whatever was
\* appended before, so a colour still active at the end of one line does
\* not colour the next line, and a line parsed twice gives the same
\* segments.
\* ------------------------------------------------------------------------
C26_ParserStateless ==
    [][Len(appended') = Len(appended) + 1
         => LET alone == add_log(<<>>, appended'[Len(appended')])
            IN IF alone = <<>>
               THEN Len(logs') <= Len(logs)
               ELSE logs' # <<>> /\ logs'[Len(logs')] = alone[1]]_vars

\* plain text was appended after a line that ended with a colour active
C26_Witness ==
    /\ appends >= 2
    /\ Len(appended) >= 2
    /\ appended[Len(appended) - 1] = << Sgr(<<31>>), TextBlock(<< Sym("y", 0, 0) >>) >>
    /\ appended[Len(appended)] = << TextBlock(<< Sym("x", 0, 0) >>) >>
    /\ logs[Len(logs)] = << AnsiSegment(<< Sym("x", 0, 0) >>, None) >>

\* ------------------------------------------------------------------------
\* C27: a persistence error causes no lifecycle transition.  The update
\* that handles a failed settings write appends one log line and leaves
\* the lifecycle, the PID, the subscription id and its counter, the
\* settings and the streams as they were; the update that handles a failed
\* settings read installs the default (empty) settings and leaves the run
\* flag, the PID and the ids as they were.
\* ------------------------------------------------------------------------
C27_PersistenceErrorHarmless ==
    [][/\ (Delivers("SettingsSaved") /\ ~Head(queue).ok)
            => /\ logs' = Append(logs, Line("Error saving settings: {}", 0, 0))
               /\ Lifecycle' = Lifecycle
               /\ UNCHANGED <<is_running, actual_pid, subscription_id,
                              subscription_id_counter, close_requested,
                              settings, streams, kills, closed>>
       /\ (Delivers("SettingsLoaded") /\ ~Head(queue).ok)
            => /\ settings' = AppSettingsDefault
               /\ logs' = Append(logs, Line("Error loading settings: {}", 0, 0))
               /\ UNCHANGED <<is_running, actual_pid, subscription_id,
                              subscription_id_counter, close_requested,
                              kills, closed>>]_vars

\* a failed write was reported while the child was running, and the run
\* goes on with its PID
C27_Witness ==
    /\ last.type = "SettingsSaved"
    /\ logs # <<>>
    /\ logs[Len(logs)] = Line("Error saving settings: {}", 0, 0)
    /\ Lifecycle = "Running"
    /\ IsSome(subscription_id)
    /\ persist.failed

\* ------------------------------------------------------------------------
\* C28: a read error on one output stream of the child ends the loop of
\* that reader and nothing else: the step sends no message and writes no
\* log line, and leaves the launcher, the other reader, the exit-watch
\* task and the child as they were.  Afterwards the other reader can still
\* send its next line and the exit-watch task can still report the exit,
\* and what they send is what they send without the error.
\* ------------------------------------------------------------------------
ReadErrorStep(i) ==
    /\ Len(streams') = Len(streams)
    /\ \/ streams[i].reading_out /\ ~streams'[i].reading_out
       \/ streams[i].reading_err /\ ~streams'[i].reading_err

\* a reader of the i-th stream has ended on a read error
ReaderEnded(i) == ~streams[i].reading_out \/ ~streams[i].reading_err

C28_ReadErrorSilent ==
    /\ [][\A i \in DOMAIN streams :
            /\ ReadErrorStep(i)
                 => /\ UNCHANGED <<queue, lvars, last, file, cvars>>
                    /\ streams' = [streams EXCEPT
                                     ![i].reading_out = streams'[i].reading_out,
                                     ![i].reading_err = streams'[i].reading_err]
            /\ (ReaderEnded(i) /\ streams[i].rx /\ streams'[i].out = streams[i].out + 1)
                 => queue' = Append(queue, MsgProcessOutput(Fmt("out", i, streams'[i].out), i))
            /\ (ReaderEnded(i) /\ streams[i].rx /\ streams'[i].err = streams[i].err + 1)
                 => queue' = Append(queue,
                       MsgProcessOutput(StderrPrefixed(Fmt("err", i, streams'[i].err)), i))
            /\ (ReaderEnded(i) /\ streams[i].rx
                  /\ streams[i].child = "exited" /\ streams'[i].child = "reaped")
                 => \/ queue' = Append(queue, MsgProcessTerminated(streams[i].code, i))
                    \/ queue' = Append(queue, MsgProcessError(
                            Fmt("Error waiting for process PID {}: {}", PidOf(i), 0), i))]_vars
    /\ [](\A i \in DOMAIN streams :
            (/\ ~closed /\ streams[i].main = "tasks" /\ streams[i].rx
             /\ Len(queue) < MaxQueue)
            => /\ (/\ ~streams[i].reading_out /\ streams[i].reading_err
                   /\ LinesRead(streams) < MaxOut)
                    => ENABLED StderrLine(i)
               /\ (/\ ~streams[i].reading_err /\ streams[i].reading_out
                   /\ LinesRead(streams) < MaxOut)
                    => ENABLED StdoutLine(i)
               /\ (ReaderEnded(i) /\ streams[i].child = "exited")
                    => ENABLED WatchSend(i))

\* the stdout reader of the running child has ended on a read error; update
\* has just logged a line the stderr reader sent, and the error itself
\* left nothing in the log
C28_Witness ==
    /\ is_running
    /\ last.type = "ProcessOutput"
    /\ \E i \in DOMAIN streams :
         /\ ~streams[i].reading_out
         /\ streams[i].reading_err
         /\ streams[i].rx
         /\ streams[i].out = 0
         /\ streams[i].err = 1
         /\ logs # <<>>
         /\ logs[Len(logs)] = ParseSegments(StderrPrefixed(Fmt("err", i, 1)))
    /\ \A l \in DOMAIN logs : \A k \in DOMAIN logs[l] :
         \A n \in DOMAIN logs[l][k].text : logs[l][k].text[n].tag # "Error reading stdout: {}"

\* ------------------------------------------------------------------------
\* C29: a Start that is accepted (not running, path and key present) takes
\* the counter as the new subscription id and increments the counter, so
\* the new id is greater than the id of every stream started before and
\* than the previous active id; every other update, a rejected Start and
\* a Start while running included, leaves the counter alone and installs
\* no id; and the active id is always smaller than the counter.
\* ------------------------------------------------------------------------
AcceptedStart ==
    IntentStep("StartButtonPressed") /\ ~is_running /\ Launchable(settings)

C29_IdsStrictlyIncrease ==
    /\ [][IF AcceptedStart
          THEN /\ subscription_id' = Some(subscription_id_counter)
               /\ subscription_id_counter' = subscription_id_counter + 1
               /\ \A i \in DOMAIN streams : streams[i].id < Unwrap(subscription_id')
               /\ (IsSome(subscription_id)
                     => Unwrap(subscription_id) < Unwrap(subscription_id'))
          ELSE /\ subscription_id_counter' = subscription_id_counter
               /\ subscription_id' \in {subscription_id, None}]_vars
    /\ [](/\ (IsSome(subscription_id)
                => Unwrap(subscription_id) < subscription_id_counter)
          /\ \A i \in DOMAIN streams : streams[i].id < subscription_id_counter)

\* a second run was started: it has id 1, the stream of the first run has
\* id 0, and a Start while running followed
C29_Witness ==
    /\ subscription_id_counter = 2
    /\ subscription_id = Some(1)
    /\ is_running
    /\ last.type = "StartButtonPressed"
    /\ last.running
    /\ \E i, j \in DOMAIN streams : streams[i].id = 0 /\ streams[j].id = 1

\* ------------------------------------------------------------------------
\* C30: an event of an earlier run handled while a newer run is active is
\* ignored.  When update handles the exit or the error of a stream whose id
\* is smaller than the active subscription id, or the result of a kill
\* sent to the child of such a stream, the run flag, the subscription id
\* and the PID of the newer run stay as they were.
\* ------------------------------------------------------------------------
EarlierRun(i) ==
    /\ i \in DOMAIN streams
    /\ is_running
    /\ IsSome(subscription_id)
    /\ streams[i].id < Unwrap(subscription_id)

C30_EarlierRunEventIgnored ==
    [][/\ ((Delivers("ProcessTerminated") \/ Delivers("ProcessError"))
            /\ EarlierRun(Head(queue).src))
            => UNCHANGED <<is_running, subscription_id, actual_pid>>
       /\ (Delivers("ProcessKillResult")
            /\ \E i \in DOMAIN streams : PidOf(i) = Head(queue).pid /\ EarlierRun(i))
            => UNCHANGED <<is_running, subscription_id, actual_pid>>]_vars

\* ------------------------------------------------------------------------
\* C31: while a run is active, an actual_pid that is Some(p) holds the pid
\* of a child spawned for the active subscription id, and a kill_process
\* issued by Stop or by the close request in that state targets such a
\* child, never a pid reported by the stream of an earlier run.
\* ------------------------------------------------------------------------
ChildOfCurrentRun(pid) ==
    \E i \in DOMAIN streams :
        PidOf(i) = pid /\ IsSome(subscription_id) /\ streams[i].id = Unwrap(subscription_id)

C31_PidOfCurrentRun ==
    /\ []((is_running /\ IsSome(actual_pid)) => ChildOfCurrentRun(Unwrap(actual_pid)))
    /\ [][(/\ is_running
           /\ IntentStep("StopButtonPressed") \/ IntentStep("CloseRequested")
           /\ Len(kills') = Len(kills) + 1)
            => ChildOfCurrentRun(kills'[Len(kills')])]_vars

\* ------------------------------------------------------------------------
\* C32: a Stop handled while the run is active and actual_pid is Some(p)
\* issues exactly one kill_process, for p, and at once clears the run
\* flag, the subscription id and actual_pid; a further Stop handled while
\* the result of that kill has not yet been handled issues no kill_process.
\* ------------------------------------------------------------------------
C32_StopKillsOnce ==
    [][IntentStep("StopButtonPressed")
         => /\ (is_running /\ IsSome(actual_pid))
                 => /\ kills' = Append(kills, Unwrap(actual_pid))
                    /\ ~is_running'
                    /\ subscription_id' = None
                    /\ actual_pid' = None
            /\ (~is_running /\ KillOutstanding(kills, queue))
                 => kills' = kills]_vars

\* ------------------------------------------------------------------------
\* C33: whenever a child of the launcher has exited, the launcher is
\* eventually Idle (is_running false and actual_pid None) or its window
\* has been closed, provided the exit-watch tasks run, kill_process calls
\* complete and queued messages are delivered, whatever the user does in
\* between.
\* ------------------------------------------------------------------------
ChildHasExited == \E i \in DOMAIN streams : streams[i].child = "exited"

C33_ExitLeadsToIdle ==
    ChildHasExited ~> (closed \/ (~is_running /\ actual_pid = None))

\* ------------------------------------------------------------------------
\* C34: whenever is_running is false and no kill_process call is pending
\* (none running, no result waiting for update), no child of the launcher
\* is running under its three tasks.  A child whose main task has still to
\* send the pid is left out: that task ends and drops the child
\* (kill_on_drop) once it finds the receiver gone.
\* ------------------------------------------------------------------------
WatchedChildren ==
    {i \in DOMAIN streams : streams[i].child = "live" /\ streams[i].main = "tasks"}

C34_NoUntrackedChild ==
    (~is_running /\ ~KillOutstanding(kills, queue)) => WatchedChildren = {}

\* ------------------------------------------------------------------------
\* C35: for each subscription id at most one child is ever spawned: no two
\* streams with the same id have both spawned a child, and while
\* is_running stays true the stream of the active id is started once.
\* ------------------------------------------------------------------------
Spawned(i) == streams[i].child \in {"live", "exited", "reaped"}

C35_OneChildPerId ==
    \A i, j \in DOMAIN streams :
        (i # j /\ streams[i].id = streams[j].id) => ~(Spawned(i) /\ Spawned(j))

\* ------------------------------------------------------------------------
\* C36: the lines a child wrote reach the log before the line that reports
\* its exit: among the messages waiting for update, no output line of a
\* stream stands behind the exit notification of the same stream.
\* ------------------------------------------------------------------------
C36_OutputBeforeExit ==
    \A k \in DOMAIN queue : \A l \in DOMAIN queue :
        (k < l /\ queue[k].type = "ProcessTerminated" /\ queue[l].type = "ProcessOutput")
          => queue[l].src # queue[k].src

\* ------------------------------------------------------------------------
\* C37: an append of a line that parses to no segment (the empty line, a
\* line of control sequences only) leaves the buffer as it was, whatever
\* its size: nothing is inserted and nothing is evicted.
\* ------------------------------------------------------------------------
C37_EmptyLineNoEffect ==
    [][Len(appended') = Len(appended) + 1
         => LET line == appended'[Len(appended')]
            IN /\ ParseSegments(line) = <<>> => logs' = logs
               /\ ParseSegmentsImpl(line) = <<>> => ui_logs' = ui_logs]_vars

\* ------------------------------------------------------------------------
\* C38: add_log (main.rs) and add_log_impl (ui.rs), started on buffers
\* with the same contents and given the same lines, keep buffers with the
\* same contents up to the palette: the same lines, each with the same
\* segments, the same texts and the same colour codes.
\* ------------------------------------------------------------------------
ColourCodes == (30..37) \cup (90..97)

\* the code a colour of the palette of main.rs stands for
CodeOfColor(color) ==
    IF color = None THEN None
    ELSE Some(CHOOSE code \in ColourCodes : ansi_to_iced_color(code) = Unwrap(color))

\* the code a colour of the palette of ui.rs stands for
CodeOfColorImpl(color) ==
    IF color = None THEN None
    ELSE Some(CHOOSE code \in ColourCodes : ui_ansi_to_iced_color(code) = Unwrap(color))

WithCodes(lg) ==
    [i \in DOMAIN lg |->
       [j \in DOMAIN lg[i] |-> [text |-> lg[i][j].text, code |-> CodeOfColor(lg[i][j].color)]]]

WithCodesImpl(lg) ==
    [i \in DOMAIN lg |->
       [j \in DOMAIN lg[i] |-> [text |-> lg[i][j].text, code |-> CodeOfColorImpl(lg[i][j].color)]]]

C38_ImplementationsEquivalent == WithCodes(logs) = WithCodesImpl(ui_logs)

\* ------------------------------------------------------------------------
\* C39: the parser preserves text: for every line, the texts of the
\* segments stored for it, concatenated in order, are the text blocks of
\* the line concatenated in order, that is the line without its control
\* sequences.  This holds for add_log and for add_log_impl.
\* ------------------------------------------------------------------------
RECURSIVE ConcatTexts(_)
ConcatTexts(parts) ==
    IF parts = <<>> THEN <<>>
    ELSE Head(parts).text \o ConcatTexts(Tail(parts))

C39_TextPreserved ==
    appends = 1
      => /\ ConcatTexts(Emitted(logs)) = ConcatTexts(appended[1])
         /\ ConcatTexts(Emitted(ui_logs)) = ConcatTexts(appended[1])

\* a line with text before and after a colour change and an ignored
\* sequence between two runs of text
C39_Witness ==
    /\ appended = << << TextBlock(<< Sym("x", 0, 0) >>), Sgr(<<1>>),
                        TextBlock(<< Sym("y", 0, 0) >>), Sgr(<<31>>) >> >>
    /\ ConcatTexts(Emitted(logs)) = << Sym("x", 0, 0), Sym("y", 0, 0) >>
    /\ Len(Emitted(logs)) = 1
    /\ Len(Emitted(ui_logs)) = 2

\* ------------------------------------------------------------------------
\* C40: in every reachable state is_running is true if and only if
\* subscription_id is Some, and every update that changes one of the two
\* changes the other with it.
\* ------------------------------------------------------------------------
C40_RunningIffSubscribed ==
    /\ [](is_running <=> IsSome(subscription_id))
    /\ [][(is_running' # is_running) <=> (IsSome(subscription_id') # IsSome(subscription_id))]_vars

\* a second run is active: Start has set the two again after the end of
\* the first run had cleared them
C40_Witness ==
    /\ is_running
    /\ subscription_id = Some(1)
    /\ last.type = "StartButtonPressed"
    /\ ~last.running

====
